---- MODULE Spec2Model ----
(***************************************************************************)
(* Model of the batch image-edit scheduler of App (gazyrun-dev/dex).       *)
(* State: the React state cells and refs of App; one action per handler,   *)
(* per run of the scheduler effect and per settlement of a dispatched      *)
(* generateImageEdit call.                                                 *)
(***************************************************************************)
EXTENDS Integers, Sequences, FiniteSets, TLC

\* ---------------------------------------------------------------- bounds
\* ids handed out by nextId stay below MaxId
MaxId == 6
\* user commands issued in one behaviour
MaxCommands == 3
\* files handed to one handleFilesSelected
MaxFiles == 1
\* images uploaded and matrix prompts added before the behaviour starts
MaxImages == 3
MaxPrompts == 1

\* ------------------------------------------------------------- constants
API_CONCURRENCY_LIMIT == 2

VECTOR_PROMPT_ID == -1

\* JavaScript null in Output.imageUrl / Output.error
NullUrl == 0
NullError == "null"

CANCELLED == "Cancelled by user."
MISSING == "Missing image or prompt."

Modes == {"vector", "matrix"}
\* texts a user can type: empty, blank, non-blank
Texts == {"", " ", "p"}
\* messages an external failure can carry
FailureMessages == {"quota"}

VARIABLES
    currentMode,     \* useState<Mode>
    uploadedImages,  \* useState<UploadedImage[]>  (sequence of image ids)
    prompts,         \* useState<Prompt[]>         (sequence of [id, text])
    vectorPrompt,    \* useState<string>
    outputs,         \* useState<Output[]>
    isGenerating,    \* useState<boolean>
    nextId,          \* useRef(0)
    processingIds,   \* useRef(new Set<number>())
    reading,         \* FileReaders started whose onload has not run
    calls,           \* generateImageEdit calls dispatched and not settled
    nextCall,        \* number of calls dispatched so far
    effectPending,   \* a dependency of the scheduler effect changed
    budget,          \* user commands still to come
    op,              \* history: the operation that produced this state
    arg,             \* history: the job id that operation was about
    was,             \* history: the status that job had before the operation
    admitted,        \* history: job ids admitted by the last effect run
    cancelledIds,    \* history: jobs forced to error by cancel, not regenerated since
    runClean,        \* history: no command but handleGenerate since the job set was built
    dispatchLog      \* history: the calls dispatched for the jobs of the job set

vars == <<currentMode, uploadedImages, prompts, vectorPrompt, outputs,
          isGenerating, nextId, processingIds, reading, calls, nextCall,
          effectPending, budget, op, arg, was, admitted, cancelledIds,
          runClean, dispatchLog>>

\* ------------------------------------------------------- pure helpers
Min(a, b) == IF a < b THEN a ELSE b
Max(a, b) == IF a > b THEN a ELSE b

\* Array.prototype.slice(0, end)
Slice0(s, end) ==
    LET k == IF end < 0 THEN Max(Len(s) + end, 0) ELSE Min(end, Len(s))
    IN  SubSeq(s, 1, k)

\* Array.prototype.filter
Filter(s, P(_)) == SelectSeq(s, P)

\* Array.prototype.map
Map(s, F(_)) == [i \in 1..Len(s) |-> F(s[i])]

\* String.prototype.trim on the modelled texts
Trim(t) == IF t = " " THEN "" ELSE t

\* JavaScript truthiness of a string
Truthy(t) == t # ""

Range(s) == {s[i] : i \in 1..Len(s)}

IdsOf(s) == {s[i].id : i \in 1..Len(s)}

\* the status of job id in outs, "none" when outs holds no such job
StatusOf(outs, id) ==
    IF id \in IdsOf(outs)
    THEN (CHOOSE o \in Range(outs) : o.id = id).status
    ELSE "none"

\* ------------------------------------------------------------ Init
\* The job set is empty and nothing runs; the input widgets hold what earlier
\* handleAddPrompt, reader.onload, setVectorPrompt and handleModeChange calls
\* left there (prompts added first, then images; the widgets of the mode that
\* is not selected untouched), ids taken from nextId.
Init ==
    /\ currentMode \in Modes
    /\ vectorPrompt \in (IF currentMode = "vector" THEN Texts ELSE {""})
    /\ \E np \in (IF currentMode = "matrix" THEN 0..MaxPrompts ELSE {0}) :
       \E ni \in 0..MaxImages :
          /\ prompts = [i \in 1..np |-> [id |-> i - 1, text |-> "p"]]
          /\ uploadedImages = [i \in 1..ni |-> np + i - 1]
          /\ nextId = np + ni
    /\ outputs = <<>>
    /\ isGenerating = FALSE
    /\ processingIds = {}
    /\ reading = 0
    /\ calls = {}
    /\ nextCall = 0
    /\ effectPending = TRUE
    /\ budget = MaxCommands
    /\ op = "init"
    /\ arg = -1
    /\ was = "none"
    /\ admitted = <<>>
    /\ cancelledIds = {}
    /\ runClean = FALSE
    /\ dispatchLog = {}

\* a user command is issued while the budget lasts
Command(name, a) ==
    /\ budget > 0
    /\ budget' = budget - 1
    /\ op' = name
    /\ arg' = a
    /\ was' = StatusOf(outputs, a)

\* ------------------------------------------------- handleGenerate
\* faulty variant: the vector text is not trimmed
isVectorReadyUntrimmed == currentMode = "vector" /\ vectorPrompt # ""

isVectorReady == currentMode = "vector" /\ Trim(vectorPrompt) # ""

isMatrixReady == currentMode = "matrix" /\ Len(prompts) > 0

\* promptsToUse, as the sequence of prompt ids
promptsToUse ==
    IF currentMode = "vector" THEN <<VECTOR_PROMPT_ID>>
    ELSE [i \in 1..Len(prompts) |-> prompts[i].id]


\* faulty variant: every batch numbers its jobs from 0
NewOutputsFromZero(images, ps, start) ==
    [k \in 1..(Len(images) * Len(ps)) |->
        [id            |-> k - 1,
         sourceImageId |-> images[((k - 1) \div Len(ps)) + 1],
         promptId      |-> ps[((k - 1) % Len(ps)) + 1],
         imageUrl      |-> NullUrl,
         status        |-> "pending",
         error         |-> NullError]]

\* faulty variant: nextId.current is read but not incremented
NewOutputsSameId(images, ps, start) ==
    [k \in 1..(Len(images) * Len(ps)) |->
        [id            |-> start,
         sourceImageId |-> images[((k - 1) \div Len(ps)) + 1],
         promptId      |-> ps[((k - 1) % Len(ps)) + 1],
         imageUrl      |-> NullUrl,
         status        |-> "pending",
         error         |-> NullError]]

\* the nested loop over images and prompts, ids taken from nextId.current++
NewOutputs(images, ps, start) ==
    [k \in 1..(Len(images) * Len(ps)) |->
        [id            |-> start + k - 1,
         sourceImageId |-> images[((k - 1) \div Len(ps)) + 1],
         promptId      |-> ps[((k - 1) % Len(ps)) + 1],
         imageUrl      |-> NullUrl,
         status        |-> "pending",
         error         |-> NullError]]

handleGenerate ==
    /\ Command("generate", -1)
    /\ IF isGenerating \/ Len(uploadedImages) = 0
          \/ (~isVectorReady /\ ~isMatrixReady)
       THEN UNCHANGED <<outputs, isGenerating, nextId, effectPending,
                        runClean, dispatchLog>>
       ELSE /\ nextId + Len(uploadedImages) * Len(promptsToUse) <= MaxId
            /\ runClean' = TRUE
            /\ dispatchLog' = {}
            /\ outputs' = NewOutputs(uploadedImages, promptsToUse, nextId)
            /\ nextId' = nextId + Len(uploadedImages) * Len(promptsToUse)
            /\ isGenerating' = TRUE
            /\ effectPending' = TRUE
    /\ UNCHANGED <<currentMode, uploadedImages, prompts, vectorPrompt,
                   processingIds, reading, calls, nextCall, admitted,
                   cancelledIds>>


\* faulty variant: only the waiting jobs are cancelled
CancelOutputPendingOnly(o) ==
    IF o.status = "pending"
    THEN [o EXCEPT !.status = "error", !.error = CANCELLED]
    ELSE o

\* faulty variant: only the jobs in flight are cancelled
CancelOutputGeneratingOnly(o) ==
    IF o.status = "generating"
    THEN [o EXCEPT !.status = "error", !.error = CANCELLED]
    ELSE o

\* --------------------------------------------------- handleCancel
CancelOutput(o) ==
    IF o.status = "pending" \/ o.status = "generating"
    THEN [o EXCEPT !.status = "error", !.error = CANCELLED]
    ELSE o

handleCancel ==
    /\ Command("cancel", -1)
    /\ isGenerating' = FALSE
    /\ outputs' = Map(outputs, CancelOutput)
    /\ processingIds' = {}
    /\ effectPending' = TRUE
    /\ cancelledIds' = cancelledIds \cup
          {outputs[i].id : i \in {j \in 1..Len(outputs) :
                                   outputs[j].status \in {"pending", "generating"}}}
    /\ UNCHANGED <<currentMode, uploadedImages, prompts, vectorPrompt,
                   nextId, reading, calls, nextCall, admitted,
                   dispatchLog>>
    /\ runClean' = FALSE


\* faulty variant: the old error message survives the reset
RegenerateOutputKeepError(o, id) ==
    IF o.id = id
    THEN [o EXCEPT !.status = "pending", !.imageUrl = NullUrl]
    ELSE o

\* ----------------------------------------------- handleRegenerate
RegenerateOutput(o, id) ==
    IF o.id = id
    THEN [o EXCEPT !.status = "pending", !.imageUrl = NullUrl, !.error = NullError]
    ELSE o

handleRegenerate(id) ==
    /\ Command("regenerate", id)
    /\ outputs' = [i \in 1..Len(outputs) |-> RegenerateOutput(outputs[i], id)]
    /\ isGenerating' = TRUE
    /\ effectPending' = TRUE
    /\ cancelledIds' = cancelledIds \ {id}
    /\ UNCHANGED <<currentMode, uploadedImages, prompts, vectorPrompt,
                   nextId, processingIds, reading, calls, nextCall, admitted,
                   dispatchLog>>
    /\ runClean' = FALSE

\* ----------------------------------------------- handleModeChange
handleModeChange(mode) ==
    /\ Command("modeChange", -1)
    /\ currentMode' = mode
    /\ outputs' = <<>>
    /\ effectPending' = TRUE
    /\ UNCHANGED <<uploadedImages, prompts, vectorPrompt, isGenerating,
                   nextId, processingIds, reading, calls, nextCall, admitted,
                   cancelledIds>>
    /\ runClean' = FALSE
    /\ dispatchLog' = {}

\* ------------------------------------- images, prompts, vector text
handleFilesSelected(n) ==
    /\ Command("filesSelected", -1)
    /\ nextId + reading + n <= MaxId
    /\ reading' = reading + n
    /\ UNCHANGED <<currentMode, uploadedImages, prompts, vectorPrompt,
                   outputs, isGenerating, nextId, processingIds, calls,
                   nextCall, effectPending, admitted, cancelledIds,
                   dispatchLog>>
    /\ runClean' = FALSE

\* reader.onload
readerOnload ==
    /\ reading > 0
    /\ nextId < MaxId
    /\ reading' = reading - 1
    /\ uploadedImages' = Append(uploadedImages, nextId)
    /\ nextId' = nextId + 1
    /\ effectPending' = TRUE
    /\ op' = "onload"
    /\ arg' = -1
    /\ was' = "none"
    /\ UNCHANGED <<currentMode, prompts, vectorPrompt, outputs, isGenerating,
                   processingIds, calls, nextCall, budget, admitted,
                   cancelledIds,
                   dispatchLog>>
    /\ runClean' = FALSE

handleClearUploads ==
    /\ Command("clearUploads", -1)
    /\ uploadedImages' = <<>>
    /\ outputs' = <<>>
    /\ effectPending' = TRUE
    /\ UNCHANGED <<currentMode, prompts, vectorPrompt, isGenerating, nextId,
                   processingIds, reading, calls, nextCall, admitted,
                   cancelledIds>>
    /\ runClean' = FALSE
    /\ dispatchLog' = {}

handleRemoveUpload(id) ==
    /\ Command("removeUpload", -1)
    /\ uploadedImages' = Filter(uploadedImages, LAMBDA img : img # id)
    /\ effectPending' = TRUE
    /\ UNCHANGED <<currentMode, prompts, vectorPrompt, outputs, isGenerating,
                   nextId, processingIds, reading, calls, nextCall, admitted,
                   cancelledIds,
                   dispatchLog>>
    /\ runClean' = FALSE

handleAddPrompt(text) ==
    /\ Command("addPrompt", -1)
    /\ nextId < MaxId
    /\ prompts' = Append(prompts, [id |-> nextId, text |-> text])
    /\ nextId' = nextId + 1
    /\ effectPending' = TRUE
    /\ UNCHANGED <<currentMode, uploadedImages, vectorPrompt, outputs,
                   isGenerating, processingIds, reading, calls, nextCall,
                   admitted, cancelledIds,
                   dispatchLog>>
    /\ runClean' = FALSE

handleRemovePrompt(id) ==
    /\ Command("removePrompt", -1)
    /\ prompts' = Filter(prompts, LAMBDA p : p.id # id)
    /\ effectPending' = TRUE
    /\ UNCHANGED <<currentMode, uploadedImages, vectorPrompt, outputs,
                   isGenerating, nextId, processingIds, reading, calls,
                   nextCall, admitted, cancelledIds,
                   dispatchLog>>
    /\ runClean' = FALSE

setVectorPrompt(text) ==
    /\ Command("setVectorPrompt", -1)
    /\ text # vectorPrompt
    /\ vectorPrompt' = text
    /\ effectPending' = TRUE
    /\ UNCHANGED <<currentMode, uploadedImages, prompts, outputs,
                   isGenerating, nextId, processingIds, reading, calls,
                   nextCall, admitted, cancelledIds,
                   dispatchLog>>
    /\ runClean' = FALSE

\* ---------------------------------------- the scheduler useEffect
pendingOutputs(outs, pids) ==
    Filter(outs, LAMBDA o : o.status = "pending" /\ o.id \notin pids)


\* faulty variant: one slot too many
availableSlotsOneMore(pids) == API_CONCURRENCY_LIMIT + 1 - Cardinality(pids)

availableSlots(pids) == API_CONCURRENCY_LIMIT - Cardinality(pids)


\* faulty variant: the newest pending jobs are taken instead of the oldest
itemsToProcessNewest(outs, pids) ==
    LET ps == pendingOutputs(outs, pids)
        k  == Min(Max(availableSlots(pids), 0), Len(ps))
    IN  SubSeq(ps, Len(ps) - k + 1, Len(ps))

itemsToProcess(outs, pids) ==
    Slice0(pendingOutputs(outs, pids), availableSlots(pids))

\* uploadedImages.find(i => i.id === outputToProcess.sourceImageId) is defined
sourceImageFound(o) == o.sourceImageId \in Range(uploadedImages)

\* promptText of runGeneration
promptText(o) ==
    IF currentMode = "vector" THEN vectorPrompt
    ELSE IF o.promptId \in IdsOf(prompts)
         THEN (CHOOSE p \in Range(prompts) : p.id = o.promptId).text
         ELSE ""

\* faulty variant: only the image is checked
missingInputImageOnly(o) == ~sourceImageFound(o)

\* !sourceImage || !promptText
missingInput(o) == ~sourceImageFound(o) \/ ~Truthy(promptText(o))

\* faulty variant: an admitted job is not marked generating
AdmitOutputStaysPending(o, items) ==
    IF o.id \in IdsOf(items)
    THEN IF missingInput(o)
         THEN [o EXCEPT !.status = "error", !.error = MISSING]
         ELSE o
    ELSE o

\* the two setOutputs of one admitted item, applied to one output
AdmitOutput(o, items) ==
    IF o.id \in IdsOf(items)
    THEN IF missingInput(o)
         THEN [o EXCEPT !.status = "error", !.error = MISSING]
         ELSE [o EXCEPT !.status = "generating"]
    ELSE o

\* the items for which generateImageEdit is called, in forEach order
dispatchedItems(items) == Filter(items, LAMBDA o : ~missingInput(o))

\* faulty variant: the in-flight set is not consulted
nothingToProcessIgnoringInFlight(items, pids) == Len(items) = 0

\* itemsToProcess.length === 0 && processingIds.current.size === 0
nothingToProcess(items, pids) == Len(items) = 0 /\ Cardinality(pids) = 0

\* outputs.some(o => o.status === 'pending')
hasPending(outs) == \E i \in 1..Len(outs) : outs[i].status = "pending"

Reevaluate ==
    /\ effectPending
    /\ op' = "effect"
    /\ arg' = -1
    /\ was' = "none"
    /\ IF ~isGenerating
       THEN /\ effectPending' = FALSE
            /\ admitted' = <<>>
            /\ UNCHANGED <<outputs, isGenerating, processingIds, calls, nextCall,
                           dispatchLog>>
       ELSE LET items == itemsToProcess(outputs, processingIds)
                sent  == dispatchedItems(items)
            IN  IF nothingToProcess(items, processingIds)
                THEN /\ isGenerating' = hasPending(outputs)
                     /\ effectPending' = ~isGenerating'
                     /\ admitted' = <<>>
                     /\ UNCHANGED <<outputs, processingIds, calls, nextCall,
                                    dispatchLog>>
                ELSE /\ admitted' = [i \in 1..Len(items) |-> items[i].id]
                     /\ outputs' = [i \in 1..Len(outputs) |->
                                        AdmitOutput(outputs[i], items)]
                     /\ processingIds' = processingIds \cup IdsOf(sent)
                     /\ calls' = calls \cup
                            {[cid |-> nextCall + k, id |-> sent[k].id] :
                                 k \in 1..Len(sent)}
                     /\ nextCall' = nextCall + Len(sent)
                     /\ dispatchLog' = dispatchLog \cup (calls' \ calls)
                     /\ effectPending' = (Len(items) > 0)
                     /\ UNCHANGED isGenerating
    /\ UNCHANGED <<currentMode, uploadedImages, prompts, vectorPrompt,
                   nextId, reading, budget, cancelledIds, runClean>>


\* faulty variant: the success branch without the status guard
SettleSuccessUnguarded(o, id, imageUrl) ==
    IF o.id = id
    THEN [o EXCEPT !.status = "complete", !.imageUrl = imageUrl, !.error = NullError]
    ELSE o

\* ------------------------------- settlement of generateImageEdit
\* try branch: the awaited call returned imageUrl
SettleSuccess(o, id, imageUrl) ==
    IF o.id = id /\ o.status = "generating"
    THEN [o EXCEPT !.status = "complete", !.imageUrl = imageUrl, !.error = NullError]
    ELSE o

\* faulty variant: the failure is written to every job
SettleFailureEveryJob(o, id, message) ==
    [o EXCEPT !.status = "error", !.error = message]

\* catch branch: the awaited call threw an Error with this message
SettleFailure(o, id, message) ==
    IF o.id = id
    THEN [o EXCEPT !.status = "error", !.error = message]
    ELSE o


\* faulty variant: a settlement releases every slot
SettleFinallyClear(pids, id) == {}

\* faulty variant: the slot of a settled call is never released
SettleFinallyKeep(pids, id) == pids

\* finally branch
SettleFinally(pids, id) == pids \ {id}

Settle(c, ok, message) ==
    /\ c \in calls
    /\ outputs' = [i \in 1..Len(outputs) |->
                      IF ok THEN SettleSuccess(outputs[i], c.id, c.cid)
                      ELSE SettleFailure(outputs[i], c.id, message)]
    /\ processingIds' = SettleFinally(processingIds, c.id)
    /\ calls' = calls \ {c}
    /\ effectPending' = TRUE
    /\ op' = IF ok THEN "settleSuccess" ELSE "settleFailure"
    /\ arg' = c.id
    /\ was' = StatusOf(outputs, c.id)
    /\ UNCHANGED <<currentMode, uploadedImages, prompts, vectorPrompt,
                   isGenerating, nextId, reading, nextCall, budget, admitted,
                   cancelledIds,
                   runClean, dispatchLog>>

SettleAny == \E c \in calls : \E ok \in BOOLEAN : \E m \in FailureMessages :
                Settle(c, ok, m)

\* ------------------------------------------------------------ Next
UserCommand ==
    \/ handleGenerate
    \/ handleCancel
    \/ \E id \in IdsOf(outputs) : handleRegenerate(id)
    \/ \E mode \in Modes : handleModeChange(mode)
    \/ \E n \in 1..MaxFiles : handleFilesSelected(n)
    \/ handleClearUploads
    \/ \E id \in Range(uploadedImages) : handleRemoveUpload(id)
    \/ \E t \in {"", "p"} : handleAddPrompt(t)
    \/ \E id \in IdsOf(prompts) : handleRemovePrompt(id)
    \/ \E t \in Texts : setVectorPrompt(t)

Next ==
    \/ UserCommand
    \/ readerOnload
    \/ Reevaluate
    \/ SettleAny

Spec == Init /\ [][Next]_vars

\* the effect runs after every render that changed a dependency, and every
\* dispatched call settles
FairSpec == Spec /\ WF_vars(Reevaluate) /\ WF_vars(SettleAny)

\* =================================================================
\* Properties
\* =================================================================
Settled(o) == o \in {"settleSuccess", "settleFailure"}

JobOf(outs, id) == CHOOSE o \in Range(outs) : o.id = id

\* ids of the jobs a re-evaluation may admit
Eligible == {outputs[i].id : i \in {j \in 1..Len(outputs) :
                 /\ outputs[j].status = "pending"
                 /\ outputs[j].id \notin processingIds}}

\* C1: in every reachable state the in-flight set holds at most
\* API_CONCURRENCY_LIMIT job ids.
C1_InFlightAtMostCeiling ==
    Cardinality(processingIds) <= API_CONCURRENCY_LIMIT

\* the in-flight set is full while a job is still waiting for a slot
C1_Witness ==
    /\ Cardinality(processingIds) = API_CONCURRENCY_LIMIT
    /\ \E i \in 1..Len(outputs) : outputs[i].status = "pending"

\* C2: at every instant at most API_CONCURRENCY_LIMIT external calls have
\* been dispatched and have not yet settled.
C2_OutstandingCallsAtMostCeiling ==
    Cardinality(calls) <= API_CONCURRENCY_LIMIT

\* C3: a settlement changes a job's record only if that job's status is
\* generating at the moment of settlement.
C3_SettlementOnlyWhenGenerating ==
    [][Settled(op') =>
          \A i \in 1..Len(outputs) :
              outputs'[i] # outputs[i] =>
                  outputs[i].id = arg' /\ outputs[i].status = "generating"]_vars

\* C4: a job that cancel forced to error, and that was not regenerated
\* since, still has status error after the settlement of its call.
C4_CancelledStaysError ==
    [][(Settled(op') /\ arg' \in cancelledIds /\ arg' \in IdsOf(outputs)
          /\ JobOf(outputs, arg').status = "error")
       => JobOf(outputs', arg').status = "error"]_vars

\* a call returned successfully for a job that cancel had forced to error
C4_Witness ==
    /\ op = "settleSuccess"
    /\ arg \in cancelledIds
    /\ was = "error"
    /\ arg \in IdsOf(outputs)
    /\ JobOf(outputs, arg).status = "error"

\* C5: right after cancel every job that was pending or generating is error
\* with the message "Cancelled by user.", every other job is unchanged, the
\* in-flight set is empty and isGenerating is false.
C5_CancelPostcondition ==
    [][op' = "cancel" =>
          /\ Len(outputs') = Len(outputs)
          /\ \A i \in 1..Len(outputs) :
                IF outputs[i].status \in {"pending", "generating"}
                THEN /\ outputs'[i].id = outputs[i].id
                     /\ outputs'[i].status = "error"
                     /\ outputs'[i].error = CANCELLED
                ELSE outputs'[i] = outputs[i]
          /\ processingIds' = {}
          /\ isGenerating' = FALSE]_vars

\* cancel has hit a batch with a finished job, a job in flight and a waiting job
C5_Witness ==
    /\ op = "cancel"
    /\ calls # {}
    /\ \E i \in 1..Len(outputs) : outputs[i].status = "complete"
    /\ \E i \in 1..Len(outputs) :
          outputs[i].error = CANCELLED /\ outputs[i].id \notin {c.id : c \in calls}
    /\ \E i \in 1..Len(outputs) :
          outputs[i].error = CANCELLED /\ outputs[i].id \in {c.id : c \in calls}

\* C6: regenerate of a job that is pending or generating changes neither the
\* job set, nor the in-flight set, nor isGenerating.
C6_RegenerateNonTerminalNoOp ==
    [][(op' = "regenerate" /\ StatusOf(outputs, arg') \in {"pending", "generating"})
       => /\ outputs' = outputs
          /\ processingIds' = processingIds
          /\ isGenerating' = isGenerating]_vars

\* C7: regenerate of a job that is complete or error makes it pending with no
\* result and no error message, leaves every other job unchanged and leaves
\* isGenerating true.
C7_RegenerateTerminal ==
    [][(op' = "regenerate" /\ StatusOf(outputs, arg') \in {"complete", "error"})
       => /\ Len(outputs') = Len(outputs)
          /\ \A i \in 1..Len(outputs) :
                IF outputs[i].id = arg'
                THEN /\ outputs'[i].id = arg'
                     /\ outputs'[i].status = "pending"
                     /\ outputs'[i].imageUrl = NullUrl
                     /\ outputs'[i].error = NullError
                ELSE outputs'[i] = outputs[i]
          /\ isGenerating' = TRUE]_vars

\* a job that had failed was regenerated next to a finished one
C7_Witness ==
    /\ op = "regenerate"
    /\ was = "error"
    /\ StatusOf(outputs, arg) = "pending"
    /\ isGenerating
    /\ \E i \in 1..Len(outputs) : outputs[i].status = "complete"

\* C8: the jobs a re-evaluation admits are the first availableSlots eligible
\* jobs in id order: no eligible job with a smaller id is left behind.
C8_AdmissionFifo ==
    [][(op' = "effect" /\ admitted' # <<>>) =>
          LET A == Range(admitted')
              free == API_CONCURRENCY_LIMIT - Cardinality(processingIds)
          IN  /\ A \subseteq Eligible
              /\ \A a \in A : \A e \in Eligible \ A : a < e
              /\ Cardinality(A) = Min(free, Cardinality(Eligible))
              /\ \A i, j \in 1..Len(admitted') :
                    i < j => admitted'[i] < admitted'[j]]_vars

\* a re-evaluation admitted jobs and had to leave an eligible job waiting
C8_Witness ==
    /\ op = "effect"
    /\ admitted # <<>>
    /\ \E i \in 1..Len(outputs) :
          /\ outputs[i].status = "pending"
          /\ outputs[i].id \notin processingIds

\* the run is over: the flag is off and every job is complete or error
Drained ==
    /\ ~isGenerating
    /\ \A i \in 1..Len(outputs) : outputs[i].status \in {"complete", "error"}

\* C9: when every dispatched call settles, the effect runs after every change
\* and the user issues finitely many commands, a state with isGenerating true
\* leads to a state with isGenerating false and every job complete or error.
C9_EventuallyDrained == isGenerating ~> Drained

\* the effect ended a run in which one call failed and another succeeded
C9_Witness ==
    /\ op = "effect"
    /\ Drained
    /\ \E i \in 1..Len(outputs) :
          outputs[i].status = "error" /\ outputs[i].error \in FailureMessages
    /\ \E i \in 1..Len(outputs) : outputs[i].status = "complete"

\* the position of x in the duplicate-free sequence s
IndexIn(s, x) == CHOOSE i \in 1..Len(s) : s[i] = x

C11_InvalidBuildChangesNothing ==
    [][(/\ op' = "generate"
        /\ \/ Len(uploadedImages) = 0
           \/ currentMode = "vector" /\ vectorPrompt \in {"", " "}
           \/ currentMode = "matrix" /\ Len(prompts) = 0)
       => /\ outputs' = outputs
          /\ nextId' = nextId
          /\ isGenerating' = isGenerating
          /\ (~isGenerating => ~isGenerating')]_vars

\* handleGenerate was refused for a blank vector text while nothing ran
C11_Witness ==
    /\ op = "generate"
    /\ ~isGenerating
    /\ currentMode = "vector"
    /\ vectorPrompt = " "
    /\ Len(uploadedImages) > 0
    /\ outputs = <<>>

\* C12: in every reachable state at most API_CONCURRENCY_LIMIT jobs have
\* status generating.
C12_GeneratingAtMostCeiling ==
    Cardinality({i \in 1..Len(outputs) : outputs[i].status = "generating"})
        <= API_CONCURRENCY_LIMIT

\* two jobs of a new batch are generating when a call of the cancelled batch
\* settles
C12_Witness ==
    /\ Cardinality({i \in 1..Len(outputs) : outputs[i].status = "generating"})
          = API_CONCURRENCY_LIMIT
    /\ cancelledIds # {}
    /\ Settled(op)
    /\ was = "none"

\* C13: an error job has an error message and no result, a complete job has
\* a result and no error message, a pending or generating job has neither.
C13_RecordShape ==
    \A i \in 1..Len(outputs) :
        /\ outputs[i].status = "error" =>
              outputs[i].error # NullError /\ outputs[i].imageUrl = NullUrl
        /\ outputs[i].status = "complete" =>
              outputs[i].imageUrl # NullUrl /\ outputs[i].error = NullError
        /\ outputs[i].status \in {"pending", "generating"} =>
              outputs[i].imageUrl = NullUrl /\ outputs[i].error = NullError

\* C14: isGenerating turns from true to false only by handleCancel, or by an
\* effect run that finds nothing to admit, an empty in-flight set and no
\* pending job.
C14_FlagTurnsOffOnlyWhenDone ==
    [][(isGenerating /\ ~isGenerating') =>
          \/ op' = "cancel"
          \/ /\ op' = "effect"
             /\ admitted' = <<>>
             /\ Eligible = {}
             /\ processingIds = {}
             /\ \A i \in 1..Len(outputs) : outputs[i].status # "pending"]_vars

\* the effect has just turned the flag off at the end of a run
C14_Witness ==
    /\ op = "effect"
    /\ ~isGenerating
    /\ effectPending
    /\ outputs # <<>>
    /\ calls = {}

\* the calls dispatched for job id since the job set was built
DispatchesOf(log, id) == {c \in log : c.id = id}

\* what C15 asks of a step of a run started by handleGenerate with no other
\* command since; Exempt(o) marks the jobs expected never to be dispatched
CleanRunStep(Exempt(_)) ==
    runClean' =>
       /\ \A i \in 1..Len(outputs') :
             Cardinality(DispatchesOf(dispatchLog', outputs'[i].id)) <= 1
       /\ (op' = "settleSuccess" /\ arg' \in IdsOf(outputs')) =>
             /\ StatusOf(outputs', arg') = "complete"
             /\ [cid |-> JobOf(outputs', arg').imageUrl, id |-> arg']
                   \in calls \ calls'
       /\ (op' = "settleFailure" /\ arg' \in IdsOf(outputs')) =>
             /\ StatusOf(outputs', arg') = "error"
             /\ JobOf(outputs', arg').error \in FailureMessages
       /\ ~isGenerating' =>
             \A i \in 1..Len(outputs') :
                IF Exempt(outputs'[i])
                THEN /\ DispatchesOf(dispatchLog', outputs'[i].id) = {}
                     /\ outputs'[i].status = "error"
                     /\ outputs'[i].error = MISSING
                ELSE /\ Cardinality(DispatchesOf(dispatchLog', outputs'[i].id)) = 1
                     /\ \/ /\ outputs'[i].status = "complete"
                           /\ [cid |-> outputs'[i].imageUrl, id |-> outputs'[i].id]
                                 \in dispatchLog'
                        \/ /\ outputs'[i].status = "error"
                           /\ outputs'[i].error \in FailureMessages

NoJob(o) == FALSE

\* the job's matrix prompt was added with an empty text
EmptyMatrixText(o) ==
    /\ currentMode = "matrix"
    /\ \E k \in 1..Len(prompts) : prompts[k].id = o.promptId /\ prompts[k].text = ""

\* C15 (as claimed): in a run started by handleGenerate with no other command,
\* every job is dispatched exactly once; a call that resolves makes its job
\* complete with its result, a call that rejects makes its job error with its
\* message, and this is what every job shows once isGenerating is false again.
C15_CleanRun == [][CleanRunStep(NoJob)]_vars

\* C15 (amended): the same for every job whose prompt text is not empty; a job
\* whose matrix prompt has an empty text is never dispatched and ends error
\* with the message "Missing image or prompt.".
C15_CleanRunResolvable == [][CleanRunStep(EmptyMatrixText)]_vars

\* a run of three jobs has ended, one call resolved and one rejected
C15_Witness ==
    /\ runClean
    /\ op = "effect"
    /\ ~isGenerating
    /\ Len(outputs) = 3
    /\ Cardinality(dispatchLog) = 3
    /\ \E i \in 1..Len(outputs) : outputs[i].status = "complete"
    /\ \E i \in 1..Len(outputs) : outputs[i].error \in FailureMessages

\* the image or the prompt text of job o cannot be resolved from the inputs
Unresolvable(o) ==
    \/ \A k \in 1..Len(uploadedImages) : uploadedImages[k] # o.sourceImageId
    \/ currentMode = "vector" /\ vectorPrompt = ""
    \/ currentMode = "matrix" /\
          \A k \in 1..Len(prompts) :
              prompts[k].id = o.promptId => prompts[k].text = ""

\* C16: a job admitted while its image or prompt text cannot be resolved
\* becomes error with the message "Missing image or prompt.", no call is
\* dispatched for it, its id is not in the in-flight set afterwards, and the
\* effect is due to run again for the jobs still pending.
C16_MissingInput ==
    [][op' = "effect" =>
          \A i \in 1..Len(outputs) :
              (outputs[i].id \in Range(admitted') /\ Unresolvable(outputs[i])) =>
                  /\ outputs'[i].id = outputs[i].id
                  /\ outputs'[i].status = "error"
                  /\ outputs'[i].error = MISSING
                  /\ \A c \in calls' \ calls : c.id # outputs[i].id
                  /\ outputs[i].id \notin processingIds'
                  /\ isGenerating'
                  /\ effectPending']_vars

\* a job whose image was removed after the batch was built failed at its
\* admission while another job of the batch was dispatched
C16_Witness ==
    /\ op = "effect"
    /\ \E i \in 1..Len(outputs) :
          /\ outputs[i].id \in Range(admitted)
          /\ outputs[i].status = "error"
          /\ outputs[i].error = MISSING
          /\ outputs[i].sourceImageId \notin Range(uploadedImages)
          /\ outputs[i].id \notin processingIds
    /\ \E i \in 1..Len(outputs) :
          /\ outputs[i].id \in Range(admitted)
          /\ outputs[i].status = "generating"

\* C17: the settlement of the call of job X leaves every other job as it was
\* and does not change isGenerating; an effect run that fails job X for a
\* missing input changes no job it did not admit, fails no admitted job whose
\* input resolves, and does not change isGenerating.
C17_PerJobErrorsAreLocal ==
    [][/\ Settled(op') =>
             /\ Len(outputs') = Len(outputs)
             /\ \A i \in 1..Len(outputs) :
                   outputs[i].id # arg' => outputs'[i] = outputs[i]
             /\ isGenerating' = isGenerating
       /\ (op' = "effect" /\ admitted' # <<>>) =>
             /\ Len(outputs') = Len(outputs)
             /\ \A i \in 1..Len(outputs) :
                   /\ outputs[i].id \notin Range(admitted') =>
                         outputs'[i] = outputs[i]
                   /\ (outputs[i].id \in Range(admitted')
                          /\ ~Unresolvable(outputs[i])) =>
                         outputs'[i] = [outputs[i] EXCEPT !.status = "generating"]
             /\ isGenerating' = isGenerating]_vars

\* a call was rejected while another job of the batch was generating
C17_Witness ==
    /\ op = "settleFailure"
    /\ StatusOf(outputs, arg) = "error"
    /\ isGenerating
    /\ \E i \in 1..Len(outputs) :
          outputs[i].id # arg /\ outputs[i].status = "generating"
    /\ \E i \in 1..Len(outputs) :
          outputs[i].id # arg /\ outputs[i].status = "pending"

\* every id held by an image, a prompt or a job
AllIds == Range(uploadedImages) \cup IdsOf(prompts) \cup IdsOf(outputs)

\* C18: every id handed to an image, a prompt or a job is greater than every
\* id handed out before it: ids held are below nextId, ids that appear in a
\* step are at or above the old nextId, no id is held twice, jobs are in id
\* order, and no id is negative (none equals the vector sentinel -1).
C18_IdsIncrease ==
    [][/\ nextId' >= nextId
       /\ \A id \in AllIds' \ AllIds : nextId <= id /\ id < nextId'
       /\ \A id \in AllIds' : 0 <= id /\ id < nextId' /\ id # VECTOR_PROMPT_ID
       /\ Cardinality(AllIds') =
             Len(uploadedImages') + Len(prompts') + Len(outputs')
       /\ \A i, j \in 1..Len(outputs') :
             i < j => outputs'[i].id < outputs'[j].id]_vars

\* a second batch was built in matrix mode after the first was cancelled
C18_Witness ==
    /\ op = "generate"
    /\ isGenerating
    /\ cancelledIds # {}
    /\ prompts # <<>>
    /\ uploadedImages # <<>>
    /\ outputs # <<>>

\* C19: whenever isGenerating is false the in-flight set is empty and no job
\* is pending or generating.
C19_IdleMeansNothingInFlight ==
    ~isGenerating =>
        /\ processingIds = {}
        /\ \A i \in 1..Len(outputs) :
              outputs[i].status \in {"complete", "error"}

\* nothing runs, yet a call of the cancelled batch has just settled
C19_Witness ==
    /\ ~isGenerating
    /\ Settled(op)
    /\ was = "error"
    /\ arg \in cancelledIds
    /\ calls # {}
    /\ outputs # <<>>

\* C20: the result stored in a complete job is the result of the most recent
\* call dispatched for that job: no call dispatched later for the same job is
\* still outstanding or has been logged with a larger number.
C20_ResultOfLatestCall ==
    \A i \in 1..Len(outputs) :
        outputs[i].status = "complete" =>
            \A c \in DispatchesOf(dispatchLog \cup calls, outputs[i].id) :
                c.cid <= outputs[i].imageUrl

====
